---- MODULE Spec2Model ----
(***************************************************************************)
(* Model of draw_simplex.py: main() reads 'simplex.txt' with read_simplex  *)
(* and hands the points to draw_simplex.  A line of the file is a sequence *)
(* of one-character strings; a line that is not the last one of the file   *)
(* ends with "\n", as the lines Python's file object yields do.  Reads of  *)
(* the file follow Python 3: f.readline() and iteration over f share one   *)
(* position.                                                               *)
(***************************************************************************)
EXTENDS Integers, Sequences, FiniteSets, TLC

VARIABLES
    file,      \* the lines of simplex.txt
    pos,       \* number of lines of f consumed so far
    pc,        \* "main", "outer" (while condition), "scan" (first for loop),
               \* "parse" (second for loop), "returned", "done", "raised"
    points,    \* the list read_simplex builds
    origin,    \* history: origin[k] is the line points[k] was read from
    readLog,   \* history: the reads of f, in order
    returned,  \* <<>> until read_simplex returns, then <<the returned list>>
    raisedIn,  \* "none", or the function a ValueError left
    drawArgs,  \* the arguments of the calls of draw_simplex, in order
    plots      \* the traces of the plotting calls, in order

vars == <<file, pos, pc, points, origin, readLog, returned, raisedIn,
          drawArgs, plots>>

\* Largest number of lines of simplex.txt that is explored.
MaxLines == 6

----------------------------------------------------------------------------
\* Text helpers.

NL == "\n"

COMMA == ","

DigitChars == <<"0", "1", "2", "3", "4", "5", "6", "7", "8", "9">>

IsDigit(c) == \E i \in 1..10 : DigitChars[i] = c

DigitVal(c) == (CHOOSE i \in 1..10 : DigitChars[i] = c) - 1

\* The characters str.strip() and float() treat as white space.
IsSpace(c) == c \in {" ", NL, "\t", "\r"}

\* The literal 'Simplex\n' of the scan loop.
SimplexLine == <<"S", "i", "m", "p", "l", "e", "x", NL>>

\* The literal 'End\n' of the point loop.
EndLine == <<"E", "n", "d", NL>>

\* The literal '' (what readline returns at end of file).
EmptyStr == <<>>

----------------------------------------------------------------------------
\* line.split(','): the fields between the commas; always at least one field.

RECURSIVE SplitFrom(_, _, _)
SplitFrom(s, sep, cur) ==
    IF s = <<>> THEN <<cur>>
    ELSE IF Head(s) = sep THEN <<cur>> \o SplitFrom(Tail(s), sep, <<>>)
    ELSE SplitFrom(Tail(s), sep, Append(cur, Head(s)))

Split(line, sep) == SplitFrom(line, sep, <<>>)

\* float(val) first strips leading and trailing white space.
RECURSIVE LStrip(_)
LStrip(s) == IF s # <<>> /\ IsSpace(Head(s)) THEN LStrip(Tail(s)) ELSE s

RECURSIVE RStrip(_)
RStrip(s) ==
    IF s # <<>> /\ IsSpace(s[Len(s)]) THEN RStrip(SubSeq(s, 1, Len(s) - 1)) ELSE s

\* Variant: only leading white space is stripped.
StripLeadingOnly(s) == LStrip(s)

Strip(s) == RStrip(LStrip(s))

Unsigned(t) == IF t # <<>> /\ Head(t) \in {"-", "+"} THEN Tail(t) ELSE t

RECURSIVE DigitsValue(_, _)
DigitsValue(s, acc) ==
    IF s = <<>> THEN acc ELSE DigitsValue(Tail(s), 10 * acc + DigitVal(Head(s)))

\* Variant: a field with no digit at all converts (to zero) instead of raising.
FloatOKEmptyIsZero(val) ==
    LET u == Unsigned(Strip(val))
    IN  \A i \in 1..Len(u) : IsDigit(u[i])

\* float(val) succeeds: an optional sign and at least one digit (the texts of
\* the model hold no '.', exponent, '_', 'inf' or 'nan').
FloatOK(val) ==
    LET u == Unsigned(Strip(val))
    IN  u # <<>> /\ \A i \in 1..Len(u) : IsDigit(u[i])

\* float(val) where it does not raise ValueError.
Float(val) ==
    LET t == Strip(val)
        m == DigitsValue(Unsigned(t), 0)
    IN  IF t # <<>> /\ Head(t) = "-" THEN 0 - m ELSE m

\* Variant: the last field (the evaluation) is left out of the record.
FloatsWithoutLast(vals) == [i \in 1..(Len(vals) - 1) |-> Float(vals[i])]

\* nums = [float(val) for val in vals]
Floats(vals) == [i \in 1..Len(vals) |-> Float(vals[i])]

----------------------------------------------------------------------------
\* The files explored.

RECURSIVE Decimal(_)
Decimal(n) ==
    IF n < 0 THEN <<"-">> \o Decimal(0 - n)
    ELSE IF n < 10 THEN <<DigitChars[n + 1]>>
    ELSE Decimal(n \div 10) \o <<DigitChars[(n % 10) + 1]>>

RECURSIVE JoinDecimals(_)
JoinDecimals(vs) ==
    IF Len(vs) = 1 THEN Decimal(vs[1])
    ELSE Decimal(vs[1]) \o <<COMMA>> \o JoinDecimals(Tail(vs))

\* The text of a point line: x1,...,xn,z and a newline.
PointLine(vs) == JoinDecimals(vs) \o <<NL>>

\* Points written in the explored files: two coordinates and an evaluation,
\* and one coordinate and an evaluation.
PointValues == {<<-1, 20, 3>>, <<4, 5>>}

BlankLine == <<NL>>

Chomp(l) == SubSeq(l, 1, Len(l) - 1)

FullLines == {SimplexLine, EndLine, BlankLine} \cup {PointLine(v) : v \in PointValues}

\* The last line of a file may lack its newline.
LastLines == FullLines \cup {Chomp(l) : l \in FullLines \ {BlankLine}}

\* f is a file of n lines: every line but the last ends with a newline.
IsFileOfLen(f, n) ==
    IF n = 0 THEN f = <<>>
    ELSE \E h \in [1..(n - 1) -> FullLines], t \in LastLines : f = Append(h, t)

----------------------------------------------------------------------------
\* The program.

AtEOF == pos >= Len(file)

NextLine == file[pos + 1]

\* What f.readline() returns: the next line, or '' at end of file.
Readline == IF AtEOF THEN EmptyStr ELSE NextLine

\* History of the reads of f: the line each read consumed (0 for a read that
\* found the end of the file) and the statement of read_simplex that read.
Logged(by) == Append(readLog, [idx |-> IF AtEOF THEN 0 ELSE pos + 1, by |-> by])

\* The file position after a read.
AfterRead == IF AtEOF THEN pos ELSE pos + 1

\* Variant: the loop condition never fails (as with "is not None").
OuterContinuesAlways(line) == line = line

\* The condition of the while loop, on what readline returned.
OuterContinues(line) == line # EmptyStr

\* Variant: the scan also stops at an 'End\n' line.
ScanBreaksAtEnd(line) == line \in {EmptyStr, SimplexLine, EndLine}

\* The break condition of the first for loop.
ScanBreaks(line) == line \in {EmptyStr, SimplexLine}

\* The break condition of the second for loop.
BlockEnds(line) == line = EndLine

\* Variant: main passes the list without its first point.
DrawArgumentSkipsFirst == SubSeq(returned[1], 2, Len(returned[1]))

\* The argument main passes to draw_simplex.
DrawArgument == returned[1]

\* Every point unpacks as (x, y, z).
Unpacks(pts) == \A i \in 1..Len(pts) : Len(pts[i]) = 3

\* The x, y and z lists of the Heatmap trace.
Trace(pts) ==
    [x |-> [i \in 1..Len(pts) |-> pts[i][1]],
     y |-> [i \in 1..Len(pts) |-> pts[i][2]],
     z |-> [i \in 1..Len(pts) |-> pts[i][3]]]

Init ==
    /\ \E n \in 0..MaxLines : IsFileOfLen(file, n)
    /\ pos = 0
    /\ pc = "main"
    /\ points = <<>>
    /\ origin = <<>>
    /\ readLog = <<>>
    /\ returned = <<>>
    /\ raisedIn = "none"
    /\ drawArgs = <<>>
    /\ plots = <<>>

\* main calls read_simplex, which opens the file and starts with no points.
OpenFile ==
    /\ pc = "main"
    /\ pc' = "outer"
    /\ pos' = 0
    /\ points' = <<>>
    /\ origin' = <<>>
    /\ UNCHANGED <<file, readLog, returned, raisedIn, drawArgs, plots>>

\* while f.readline() != '': the line read is compared with '' only; when
\* the condition fails read_simplex returns points.
OuterReadline ==
    /\ pc = "outer"
    /\ pos' = AfterRead
    /\ readLog' = Logged("readline")
    /\ IF OuterContinues(Readline)
       THEN pc' = "scan" /\ UNCHANGED returned
       ELSE pc' = "returned" /\ returned' = <<points>>
    /\ UNCHANGED <<file, points, origin, raisedIn, drawArgs, plots>>

\* First for loop: skip lines up to and including the next 'Simplex\n'; the
\* loop also ends when the file is exhausted.
ScanNext ==
    /\ pc = "scan"
    /\ pos' = AfterRead
    /\ readLog' = Logged("scan")
    /\ pc' = IF AtEOF \/ ScanBreaks(NextLine) THEN "parse" ELSE "scan"
    /\ UNCHANGED <<file, points, origin, returned, raisedIn, drawArgs, plots>>

\* Second for loop: 'End\n' closes the block, any other line is split at the
\* commas and every field converted with float; a ValueError leaves
\* read_simplex and main.
ParseNext ==
    /\ pc = "parse"
    /\ pos' = AfterRead
    /\ IF AtEOF
       THEN /\ readLog' = Logged("parse")
            /\ pc' = "outer"
            /\ UNCHANGED <<points, origin, raisedIn>>
       ELSE /\ IF BlockEnds(NextLine)
               THEN /\ readLog' = Logged("end")
                    /\ pc' = "outer"
                    /\ UNCHANGED <<points, origin, raisedIn>>
               ELSE LET vals == Split(NextLine, COMMA)
                    IN  /\ readLog' = Logged("point")
                        /\ IF \A i \in 1..Len(vals) : FloatOK(vals[i])
                           THEN /\ points' = Append(points, Floats(vals))
                                /\ origin' = Append(origin, pos + 1)
                                /\ pc' = "parse"
                                /\ UNCHANGED raisedIn
                           ELSE /\ pc' = "raised"
                                /\ raisedIn' = "read_simplex"
                                /\ UNCHANGED <<points, origin>>
    /\ UNCHANGED <<file, returned, drawArgs, plots>>

\* main passes the returned list to draw_simplex, which unpacks every point
\* as (x, y, z) and makes the plotting call; a point that is no triple
\* raises ValueError before the plotting call.
DrawSimplex ==
    /\ pc = "returned"
    /\ LET pts == DrawArgument
       IN  /\ drawArgs' = Append(drawArgs, pts)
           /\ IF Unpacks(pts)
              THEN /\ plots' = Append(plots, Trace(pts))
                   /\ pc' = "done"
                   /\ UNCHANGED raisedIn
              ELSE /\ pc' = "raised"
                   /\ raisedIn' = "draw_simplex"
                   /\ UNCHANGED plots
    /\ UNCHANGED <<file, pos, points, origin, readLog, returned>>

Next ==
    \/ OpenFile
    \/ OuterReadline
    \/ ScanNext
    \/ ParseNext
    \/ DrawSimplex

Spec == Init /\ [][Next]_vars

----------------------------------------------------------------------------
\* Vocabulary of the properties, stated on the text of the file.

\* l is a well-formed point line (with or without its newline).
IsPointText(l) == \E v \in PointValues : l \in {PointLine(v), Chomp(PointLine(v))}

\* The numbers a well-formed point line was written from.
WrittenValues(l) == CHOOSE v \in PointValues : l \in {PointLine(v), Chomp(PointLine(v))}

\* The number of comma-separated fields of a line.
FieldCount(l) == Cardinality({i \in 1..Len(l) : l[i] = COMMA}) + 1

\* The numbers written on the lines lo..hi of f, in file order.
RECURSIVE ValuesOfLines(_, _, _)
ValuesOfLines(f, lo, hi) ==
    IF lo > hi THEN <<>>
    ELSE <<WrittenValues(f[lo])>> \o ValuesOfLines(f, lo + 1, hi)

IsSentinel(l) == l \in {SimplexLine, EndLine}

\* Line i of f lies inside a block: a 'Simplex' line precedes it and no 'End'
\* line lies between the two.
AfterOpenSimplex(f, i) ==
    \E j \in 1..(i - 1) :
        /\ f[j] = SimplexLine
        /\ \A k \in (j + 1)..(i - 1) : f[k] # EndLine

\* Line i of f is a line of a block of a well-formed file.
InBlock(f, i) ==
    /\ ~IsSentinel(f[i])
    /\ \E j \in 1..(i - 1) :
        /\ f[j] = SimplexLine
        /\ \A k \in (j + 1)..(i - 1) : ~IsSentinel(f[k])

\* The numbers of the lines of f that lie inside blocks, in file order.
RECURSIVE BlockValues(_, _)
BlockValues(f, i) ==
    IF i > Len(f) THEN <<>>
    ELSE (IF InBlock(f, i) THEN <<WrittenValues(f[i])>> ELSE <<>>)
         \o BlockValues(f, i + 1)

\* f is exactly one block: 'Simplex', k >= 1 point lines, 'End'.
IsSingleBlock(f) ==
    /\ Len(f) >= 3
    /\ f[1] = SimplexLine
    /\ f[Len(f)] = EndLine
    /\ \A i \in 2..(Len(f) - 1) : \E v \in PointValues : f[i] = PointLine(v)

\* f is a sequence of at least two blocks, each a 'Simplex' line, one or more
\* point lines and an 'End' line, with any lines that are no sentinel
\* before, between and after the blocks.
IsBlocksFile(f) ==
    /\ Cardinality({i \in 1..Len(f) : f[i] = SimplexLine}) >= 2
    /\ \A i \in 1..Len(f) :
        /\ f[i] \notin {Chomp(SimplexLine), Chomp(EndLine)}
        /\ f[i] = SimplexLine =>
              /\ i < Len(f) /\ InBlock(f, i + 1)
              /\ \E e \in (i + 1)..Len(f) :
                    /\ f[e] = EndLine
                    /\ \A k \in (i + 1)..(e - 1) : ~IsSentinel(f[k])
        /\ f[i] = EndLine => i > 1 /\ (InBlock(f, i - 1))
        /\ InBlock(f, i) => \E v \in PointValues : f[i] = PointLine(v)

HasReturned == returned # <<>>

LogEntries == {readLog[n] : n \in 1..Len(readLog)}

----------------------------------------------------------------------------
\* C1: for a file that is exactly one block starting on the first line
\* ('Simplex', k >= 1 point lines, 'End'), read_simplex returns the k points
\* of the block in file order.
C1_SingleBlockReturnsItsPoints ==
    (HasReturned /\ IsSingleBlock(file)) =>
        returned[1] = ValuesOfLines(file, 2, Len(file) - 1)

\* C2: for a file of several blocks, read_simplex returns the points of
\* every block in file order, whatever separates the blocks.
C2_BlocksAreConcatenated ==
    (HasReturned /\ IsBlocksFile(file)) => returned[1] = BlockValues(file, 1)

\* C3: every record comes from one point line of its own and holds the
\* numbers written in that line's comma-separated fields, in field order,
\* one value per field; read_simplex returns these records.
C3_RecordHoldsTheFieldsOfItsLine ==
    /\ Len(origin) = Len(points)
    /\ \A k \in 1..Len(points) :
          LET l == file[origin[k]]
          IN  /\ IsPointText(l)
              /\ points[k] = WrittenValues(l)
              /\ Len(points[k]) = FieldCount(l)
              /\ \A m \in 1..(k - 1) : origin[m] < origin[k]
    /\ HasReturned => returned[1] = points

\* Two records of different sizes, one negative and one two-digit value, have
\* been returned.
C3_Witness ==
    /\ HasReturned
    /\ \E k, m \in 1..Len(returned[1]) :
          /\ Len(returned[1][k]) = 3 /\ returned[1][k][1] < 0 /\ returned[1][k][2] > 9
          /\ Len(returned[1][m]) = 2

\* C4: draw_simplex is called at most once, only after read_simplex has
\* returned and with exactly the list it returned; once main has passed the
\* call it was made exactly once; it is never called, and nothing is
\* plotted, when read_simplex raised.
C4_TwoStepPipeline ==
    /\ Len(drawArgs) <= 1
    /\ Len(plots) <= Len(drawArgs)
    /\ drawArgs # <<>> => HasReturned /\ drawArgs[1] = returned[1] /\ drawArgs[1] = points
    /\ pc \in {"main", "outer", "scan", "parse", "returned"} => drawArgs = <<>>
    /\ (pc = "done" \/ raisedIn = "draw_simplex") => Len(drawArgs) = 1
    /\ pc = "done" => Len(plots) = 1
    /\ raisedIn = "read_simplex" => drawArgs = <<>> /\ plots = <<>>

\* The pipeline ran through: points were parsed, returned and plotted.
C4_Witness ==
    /\ pc = "done"
    /\ Len(plots) = 1
    /\ Len(drawArgs[1]) >= 2

\* C5: draw_simplex accepts every list read_simplex returns and makes one
\* plotting call whose x, y and z lists have one entry per point.
C5_DrawAcceptsEveryReturnedList ==
    drawArgs # <<>> =>
        /\ raisedIn # "draw_simplex"
        /\ Len(plots) = 1
        /\ Len(plots[1].x) = Len(drawArgs[1])
        /\ Len(plots[1].y) = Len(drawArgs[1])
        /\ Len(plots[1].z) = Len(drawArgs[1])

\* C6: when a line read as a point inside a block is no well-formed point
\* line (a field of it is no number), the ValueError leaves read_simplex:
\* the program has stopped, nothing was returned, draw_simplex was not
\* called.
C6_ConversionErrorPropagates ==
    /\ (\E e \in LogEntries : e.by = "point" /\ ~IsPointText(file[e.idx]))
          => raisedIn = "read_simplex"
    /\ raisedIn = "read_simplex" =>
          /\ pc = "raised"
          /\ ~ENABLED Next
          /\ returned = <<>>
          /\ drawArgs = <<>>
          /\ plots = <<>>

\* A final 'End' without newline raised after a point had been collected.
C6_Witness ==
    /\ raisedIn = "read_simplex"
    /\ points # <<>>
    /\ file[pos] = Chomp(EndLine)

\* C7: every line parsed as a point (so every record of points) has a
\* 'Simplex' line before it and no 'End' line between that line and itself.
C7_SentinelScoping ==
    /\ \A k \in 1..Len(origin) : AfterOpenSimplex(file, origin[k])
    /\ \A e \in LogEntries : e.by = "point" => AfterOpenSimplex(file, e.idx)

\* A record of a second block: an 'End' line and then a 'Simplex' line lie
\* before its line, and a line between them was not parsed.
C7_Witness ==
    \E k \in 1..Len(origin) :
        \E e \in 1..(origin[k] - 3) :
            /\ file[e] = EndLine
            /\ file[origin[k] - 1] = SimplexLine
            /\ \A n \in LogEntries : n.idx = e + 1 => n.by # "point"

\* C8: every line consumed so far was examined: it was compared with a
\* sentinel marker or parsed as a point.
C8_EveryLineIsExamined ==
    \A i \in 1..pos :
        \E e \in LogEntries : e.idx = i /\ e.by \in {"scan", "end", "point"}

\* C9: read_simplex terminates.  The reads that consume a line consume the
\* lines 1, 2, ... in order, each once, and are at most as many as the file
\* has lines; a pass through the while loop starts only when readline
\* consumed a line (a readline that finds the end of the file is the last
\* read); every step of read_simplex is a read and there are at most three
\* more reads than lines; until read_simplex has returned or raised the
\* program is at one of its statements, each of which always has a step.
ReadSimplexEnded == pc \in {"returned", "done", "raised"}

Consumed == SelectSeq(readLog, LAMBDA e : e.idx > 0)

C9_ReadSimplexTerminates ==
    /\ pos <= Len(file)
    /\ Len(Consumed) = pos
    /\ \A n \in 1..Len(Consumed) : Consumed[n].idx = n
    /\ \A n \in 1..Len(readLog) :
          (readLog[n].by = "readline" /\ readLog[n].idx = 0) =>
              n = Len(readLog) /\ ReadSimplexEnded
    /\ Len(readLog) <= Len(file) + 3
    /\ ReadSimplexEnded \/ pc \in {"main", "outer", "scan", "parse"}

\* read_simplex returned after two passes through the while loop.
C9_Witness ==
    /\ pc = "returned"
    /\ Len(SelectSeq(readLog, LAMBDA e : e.by = "readline" /\ e.idx > 0)) >= 2
    /\ points # <<>>

\* C10: (a) when a recognised 'Simplex' line is followed only by well-formed
\* point lines up to the end of the file, read_simplex does not raise and
\* what it returns ends with the points of all those lines; (b) when the
\* file has no 'Simplex' line (or no line at all) read_simplex does not
\* raise and returns the empty list.
OpenBlockAt(j) ==
    /\ \E e \in LogEntries : e.idx = j /\ e.by = "scan"
    /\ file[j] = SimplexLine
    /\ \A i \in (j + 1)..Len(file) : IsPointText(file[i])

C10_EndOfFileClosesBlock ==
    /\ \A j \in 1..Len(file) :
          OpenBlockAt(j) =>
              /\ raisedIn # "read_simplex"
              /\ HasReturned =>
                    /\ Len(returned[1]) >= Len(file) - j
                    /\ SubSeq(returned[1], Len(returned[1]) - (Len(file) - j) + 1,
                              Len(returned[1]))
                          = ValuesOfLines(file, j + 1, Len(file))
    /\ (\A i \in 1..Len(file) : file[i] # SimplexLine) =>
          /\ raisedIn # "read_simplex"
          /\ points = <<>>
          /\ HasReturned => returned[1] = <<>>

\* A block of two points was closed by the end of the file, the last line
\* lacking its newline.
C10_Witness ==
    /\ HasReturned
    /\ Len(file) >= 4
    /\ OpenBlockAt(Len(file) - 2)
    /\ file[Len(file)][Len(file[Len(file)])] # NL
    /\ Len(returned[1]) >= 2

====
